---------------------------- MODULE Spec2Model ----------------------------
(***************************************************************************)
(* A model of the FlatPanelCover INDI driver (indi_flatpanel.cpp).         *)
(*                                                                         *)
(* The driver is a set of overrides that the host (INDI::DefaultDevice,    *)
(* which is not part of this repository) calls: Connect, Disconnect,       *)
(* TimerHit, ISNewSwitch and ISNewNumber.  Each override is one action.    *)
(* The host may call any of them at any time; isConnected() is the host's  *)
(* flag, set from the value Connect()/Disconnect() return.                 *)
(*                                                                         *)
(* C strings are sequences of one-character strings, so that strstr, atoi  *)
(* and snprintf are computed on the characters.                            *)
(***************************************************************************)
EXTENDS Integers, Sequences, FiniteSets

(***************************************************************************)
(* Bounds of the model.                                                    *)
(***************************************************************************)
\* Largest file descriptor of the process (open() fails when none is free).
MaxFD == 4
\* Largest number of /dev/ttyUSB* paths glob() returns.
MaxPorts == 2
\* Largest number of fragments an arbitrary inbound text is built from.
MaxFrags == 2

(***************************************************************************)
(* Program constants.                                                      *)
(***************************************************************************)
\* BrightnessValue[0].min / the lower clamp of ISNewNumber.
BrightnessMin == 0
\* BrightnessValue[0].max / the upper clamp of ISNewNumber.
BrightnessMax == 4095
\* The argument of SetTimer in TimerHit.
PollPeriod == 1000
\* sizeof(response) in TimerHit.
ResponseSize == 128
\* The offset added to response before atoi.
BrightnessOffset == 11

ISS_ON == "On"
ISS_OFF == "Off"

DeviceName == "PrometheusAstro Flat Panel Cover"
CoverControlName == "Cover Control"
BrightnessControlName == "Brightness Control"

(***************************************************************************)
(* Character strings.                                                      *)
(***************************************************************************)
Digits == <<"0", "1", "2", "3", "4", "5", "6", "7", "8", "9">>

sOPEN == <<"O", "P", "E", "N">>
sCLOSE == <<"C", "L", "O", "S", "E">>
sSTATE_OPEN == <<"S", "T", "A", "T", "E", " ", "O", "P", "E", "N">>
sSTATE_CLOSED == <<"S", "T", "A", "T", "E", " ", "C", "L", "O", "S", "E", "D">>
sSTATE_MOVING == <<"S", "T", "A", "T", "E", " ", "M", "O", "V", "I", "N", "G">>
sBRIGHTNESS == <<"B", "R", "I", "G", "H", "T", "N", "E", "S", "S">>
sBRIGHTNESS_SP == sBRIGHTNESS \o <<" ">>

\* strstr(s, pat) != NULL
Contains(s, pat) ==
    \E i \in 1..(Len(s) - Len(pat) + 1) : SubSeq(s, i, i + Len(pat) - 1) = pat

\* The vertical tab (0x0b), for which TLA+ strings have no escape.
VT == "\\v"

\* isspace() in the C locale: blank, \t, \n, \v, \f, \r.
IsSpace(c) == c \in {" ", "\t", "\n", VT, "\f", "\r"}
IsDigit(c) == \E d \in 1..10 : Digits[d] = c
DigitVal(c) == (CHOOSE d \in 1..10 : Digits[d] = c) - 1

RECURSIVE SkipSpace(_)
SkipSpace(s) ==
    IF s # <<>> /\ IsSpace(Head(s)) THEN SkipSpace(Tail(s)) ELSE s

\* An unsigned 32-bit number as <<high half, low half>>, 16 bits each.
Half == 65536

\* The digits at the head of s, added to acc as atoi adds them: acc * 10 +
\* digit, kept to 32 bits.
RECURSIVE AccDigits(_, _)
AccDigits(s, acc) ==
    IF s # <<>> /\ IsDigit(Head(s))
    THEN LET lo == acc[2] * 10 + DigitVal(Head(s))
             hi == acc[1] * 10 + lo \div Half IN
         AccDigits(Tail(s), <<hi % Half, lo % Half>>)
    ELSE acc

\* 0 - w in 32 bits.
Neg32(w) ==
    IF w[2] = 0 THEN <<(Half - w[1]) % Half, 0>>
    ELSE <<(Half - 1) - w[1], Half - w[2]>>

\* The int that has the 32 bits of w.
ToSigned(w) ==
    IF w[1] >= Half \div 2 THEN (w[1] - Half) * Half + w[2]
    ELSE w[1] * Half + w[2]

\* The digits at the head of s.
RECURSIVE DigitRun(_)
DigitRun(s) ==
    IF s # <<>> /\ IsDigit(Head(s)) THEN <<Head(s)>> \o DigitRun(Tail(s))
    ELSE <<>>

RECURSIVE StripZeros(_)
StripZeros(ds) ==
    IF ds # <<>> /\ Head(ds) = "0" THEN StripZeros(Tail(ds)) ELSE ds

\* a > b for two numerals of the same length.
RECURSIVE NumeralGreater(_, _)
NumeralGreater(a, b) ==
    IF a = <<>> THEN FALSE
    ELSE IF DigitVal(Head(a)) # DigitVal(Head(b))
         THEN DigitVal(Head(a)) > DigitVal(Head(b))
         ELSE NumeralGreater(Tail(a), Tail(b))

\* LONG_MAX, and the magnitude of LONG_MIN, as numerals.
LongMaxDigits ==
    <<"9", "2", "2", "3", "3", "7", "2", "0", "3", "6",
      "8", "5", "4", "7", "7", "5", "8", "0", "7">>
LongMinDigits ==
    <<"9", "2", "2", "3", "3", "7", "2", "0", "3", "6",
      "8", "5", "4", "7", "7", "5", "8", "0", "8">>

\* strtol's range test: the numeral does not fit a long.
BeyondLong(ds, neg) ==
    LET limit == IF neg THEN LongMinDigits ELSE LongMaxDigits IN
    \/ Len(ds) > Len(limit)
    \/ Len(ds) = Len(limit) /\ NumeralGreater(ds, limit)

\* atoi: leading white space, an optional sign, then digits; 0 when no digit.
\* It is (int) strtol(s, NULL, 10): a numeral beyond int keeps its low 32
\* bits, and one beyond long is LONG_MAX or LONG_MIN before the conversion,
\* which leaves -1 or 0.
Atoi(s) ==
    LET t == SkipSpace(s)
        neg == t # <<>> /\ Head(t) = "-"
        body == IF t # <<>> /\ Head(t) \in {"-", "+"} THEN Tail(t) ELSE t
        w == AccDigits(body, <<0, 0>>) IN
    IF BeyondLong(StripZeros(DigitRun(body)), neg)
    THEN (IF neg THEN 0 ELSE -1)
    ELSE ToSigned(IF neg THEN Neg32(w) ELSE w)

RECURSIVE DecNat(_)
DecNat(n) ==
    IF n < 10 THEN <<Digits[n + 1]>>
    ELSE DecNat(n \div 10) \o <<Digits[(n % 10) + 1]>>

\* printf's %d
FormatInt(n) == IF n < 0 THEN <<"-">> \o DecNat(0 - n) ELSE DecNat(n)


(***************************************************************************)
(* Inputs.                                                                 *)
(***************************************************************************)
sSP_2048 == <<" ", "2", "0", "4", "8">>
sSP_9000 == <<" ", "9", "0", "0", "0">>
sSP_NEG5 == <<" ", "-", "5">>
sSP_abc == <<" ", "a", "b", "c">>
sSP_4294967301 == <<" ", "4", "2", "9", "4", "9", "6", "7", "3", "0", "1">>
sNL == <<"\n">>
sOK_SP == <<"o", "k", " ">>
sHelloWorld == <<"h", "e", "l", "l", "o", " ", "w", "o", "r", "l", "d">>

\* The status lines the microcontroller may have sent between two ticks: the
\* well-formed ones, out-of-range and non-numeric brightness reports, a
\* brightness numeral beyond the range of int, noise, a
\* brightness report after chatter, and two lines in one burst.
StatusLines ==
    { sSTATE_OPEN \o sNL,
      sSTATE_CLOSED \o sNL,
      sSTATE_MOVING \o sNL,
      sBRIGHTNESS \o sSP_2048 \o sNL,
      sBRIGHTNESS \o sSP_9000,
      sBRIGHTNESS \o sSP_NEG5,
      sBRIGHTNESS \o sSP_abc,
      sBRIGHTNESS \o sSP_4294967301,
      sHelloWorld,
      sOK_SP \o sBRIGHTNESS \o sSP_2048,
      sSTATE_OPEN \o sNL \o sBRIGHTNESS \o sSP_2048 \o sNL }

\* Arbitrary inbound texts: every concatenation of at most MaxFrags fragments.
Fragments ==
    { sSTATE_OPEN, sSTATE_CLOSED, sSTATE_MOVING, sBRIGHTNESS,
      sSP_2048, sSP_9000, sSP_abc, sNL, sOK_SP }

RECURSIVE TextsUpTo(_)
TextsUpTo(k) ==
    IF k = 0 THEN {<<>>}
    ELSE LET prev == TextsUpTo(k - 1) IN
         prev \cup {t \o f : t \in prev, f \in Fragments}

\* The texts waiting when a session starts.  The token alone is not among
\* them: for it the tick stores an indeterminate int (ParsedBrightness), too
\* many values to enumerate, and the handling of the texts read later does
\* not depend on the value stored.
Texts == TextsUpTo(MaxFrags) \ {<<>>, sBRIGHTNESS}

\* values[0] of a number write, a double, in halves (201 is 100.5): whole and
\* fractional, below, inside and above the range of the control.
NumberInputs == {-100, -1, 201, 8190, 10000, 18000}

\* values[0] beyond the range of int, as halves and a power of ten: 1e10.
BigNumberInputs == {[value |-> 2, e10 |-> 10]}

\* names[] and states[] of a switch write: one element, or both options in
\* either order, each On or Off.
SwitchInputs ==
    { [names |-> <<n>>, states |-> <<s>>] :
        n \in {"OPEN", "CLOSE"}, s \in {ISS_ON, ISS_OFF} }
    \cup
    { [names |-> ns, states |-> <<s1, s2>>] :
        ns \in {<<"OPEN", "CLOSE">>, <<"CLOSE", "OPEN">>},
        s1 \in {ISS_ON, ISS_OFF}, s2 \in {ISS_ON, ISS_OFF} }

\* What storage that was never written may read as, as an int: any value.
\* One of each kind: negative, the absent handle -1, zero, a number inside the
\* range of the brightness control, a number above it (and above MaxFD).
UninitInts == {-5, -1, 0, 2048, 9000}

\* The range of int.
IntMax == 2147483647
IntMin == (0 - IntMax) - 1

\* What one process holds open at start: stdin, stdout, stderr.
StdFDs == {0, 1, 2}

PortPath(i) == <<"/dev/ttyUSB", i - 1>>

(***************************************************************************)
(* State.                                                                  *)
(***************************************************************************)
VARIABLES
    connected,        \* isConnected() of the host
    serialFD,         \* int serialFD
    serialPort,       \* std::string serialPort
    openFDs,          \* the descriptors the process holds open
    handles,          \* those of them that port discovery opened
    CoverOptions,     \* <<CoverOptions[0].s, CoverOptions[1].s>>
    BrightnessValue,  \* BrightnessValue[0].value
    StatusText,       \* StatusMessages[0].text
    timer,            \* the period of the pending SetTimer, 0 when none
    rxbuf,            \* bytes waiting on the serial line, not read yet
    last              \* the last call: its name, inputs, I/O and result

vars == <<connected, serialFD, serialPort, openFDs, handles, CoverOptions,
          BrightnessValue, StatusText, timer, rxbuf, last>>

\* The record of a call that took no input and did no I/O.
Call(op, ret) ==
    [op |-> op, ret |-> ret, read |-> FALSE, rx |-> <<>>, sent |-> <<>>,
     configured |-> FALSE, closed |-> <<>>, dev |-> "", name |-> "",
     value |-> 0, e10 |-> 0, names |-> <<>>, states |-> <<>>, opens |-> <<>>,
     tried |-> 0]

\* The cover position the two-way switch shows.
CoverState ==
    IF CoverOptions = <<ISS_ON, ISS_OFF>> THEN "Open"
    ELSE IF CoverOptions = <<ISS_OFF, ISS_ON>> THEN "Closed"
    ELSE "Unknown"

\* The constructor sets nothing (serialFD stays uninitialized); initProperties
\* sets both options Off, brightness 0 and the status text "Disconnected".
Init ==
    /\ connected = FALSE
    /\ serialFD \in UninitInts
    /\ serialPort = <<>>
    /\ openFDs = StdFDs
    /\ handles = {}
    /\ CoverOptions = <<ISS_OFF, ISS_OFF>>
    /\ BrightnessValue = 0
    /\ StatusText = "Disconnected"
    /\ timer = 0
    /\ rxbuf = <<>>
    /\ last = Call("Init", "void")


(***************************************************************************)
(* Connect and Disconnect.                                                 *)
(***************************************************************************)
\* The results of glob("/dev/ttyUSB*") the environment may give: for each
\* path found, in order, whether open() on it succeeds.
RECURSIVE BoolSeqs(_)
BoolSeqs(k) ==
    IF k = 0 THEN {<<>>}
    ELSE LET prev == BoolSeqs(k - 1) IN
         prev \cup {q \o <<b>> : q \in prev, b \in BOOLEAN}

GlobResults == BoolSeqs(MaxPorts)

\* open(): the lowest descriptor that is free, -1 when the path does not open
\* or the descriptor table is full.
OpenFD(fds, canOpen) ==
    IF canOpen /\ (0..MaxFD) \ fds # {}
    THEN CHOOSE fd \in (0..MaxFD) \ fds : \A g \in (0..MaxFD) \ fds : fd <= g
    ELSE -1

\* A search that goes on after a candidate has opened: the last candidate that
\* opens is kept and the handles opened before it stay open.
RECURSIVE TryPorts_NoEarlyReturn(_, _, _, _, _)
TryPorts_NoEarlyReturn(opens, i, fd, port, fds) ==
    IF i > Len(opens)
    THEN [found |-> fds # openFDs, fd |-> fd, port |-> port, fds |-> fds,
          tried |-> i - 1]
    ELSE LET got == OpenFD(fds, opens[i]) IN
         IF got >= 0
         THEN TryPorts_NoEarlyReturn(opens, i + 1, got, PortPath(i),
                                     fds \cup {got})
         ELSE TryPorts_NoEarlyReturn(opens, i + 1, fd, port, fds)

\* glob("/dev/ttyUSB*"): the candidate paths found.  Reading the directory
\* takes a descriptor, so with a full descriptor table glob fails and there
\* is no candidate.
Glob(opens) == IF (0..MaxFD) \ openFDs = {} THEN <<>> ELSE opens

\* The loop of findArduinoPort from candidate i on: each candidate overwrites
\* serialPort and serialFD, and the first that opens ends the search.
RECURSIVE TryPorts(_, _, _, _, _)
TryPorts(opens, i, fd, port, fds) ==
    IF i > Len(opens)
    THEN [found |-> FALSE, fd |-> fd, port |-> port, fds |-> fds,
          tried |-> i - 1]
    ELSE LET got == OpenFD(fds, opens[i]) IN
         IF got >= 0
         THEN [found |-> TRUE, fd |-> got, port |-> PortPath(i),
               fds |-> fds \cup {got}, tried |-> i]
         ELSE TryPorts(opens, i + 1, got, PortPath(i), fds)

\* findArduinoPort: when glob finds nothing the loop is not entered and
\* serialFD and serialPort keep their values.
findArduinoPort(opens) == TryPorts(Glob(opens), 1, serialFD, serialPort, openFDs)

\* Connect(): port discovery, then the termios configuration of the handle.
\* The host sets isConnected() from the value returned.  Nothing is flushed:
\* the bytes waiting on the line are still waiting on the handle just opened.
Connect ==
    \E opens \in GlobResults :
        LET r == findArduinoPort(opens) IN
        /\ serialFD' = r.fd
        /\ serialPort' = r.port
        /\ openFDs' = r.fds
        /\ handles' = handles \cup (r.fds \ openFDs)
        /\ connected' = r.found
        /\ last' = [Call("Connect", IF r.found THEN "true" ELSE "false")
                      EXCEPT !.configured = r.found, !.opens = Glob(opens),
                             !.tried = r.tried]
        /\ UNCHANGED <<CoverOptions, BrightnessValue, StatusText, timer, rxbuf>>

\* Disconnect(): closes the handle when serialFD >= 0 and returns true, after
\* which the host reports isConnected() false.  The bytes that were not read
\* stay on the line.
Disconnect ==
    /\ IF serialFD >= 0
       THEN /\ openFDs' = openFDs \ {serialFD}
            /\ handles' = handles \ {serialFD}
            /\ serialFD' = -1
            /\ last' = [Call("Disconnect", "true") EXCEPT !.closed = <<serialFD>>]
       ELSE /\ UNCHANGED <<openFDs, handles, serialFD>>
            /\ last' = Call("Disconnect", "true")
    /\ connected' = FALSE
    /\ UNCHANGED <<serialPort, CoverOptions, BrightnessValue, StatusText, timer,
                   rxbuf>>

(***************************************************************************)
(* The serial transport.  readResponse and sendCommand are declared in the *)
(* class but their bodies are not in the source file; they are modelled    *)
(* from the specification's SerialTransport contract.                      *)
(***************************************************************************)
\* readResponse(response, maxLength): of the bytes available on the line, at
\* most maxLength - 1 are read and NUL-terminated; false when none is there.
readResponse(avail, maxLength) ==
    LET k == IF Len(avail) < maxLength - 1 THEN Len(avail) ELSE maxLength - 1 IN
    [ok |-> k > 0,
     response |-> SubSeq(avail, 1, k),
     rest |-> SubSeq(avail, k + 1, Len(avail))]

\* sendCommand(cmd): the write of the whole command succeeds or fails.
sendCommand(cmd) == {[cmd |-> cmd, ok |-> wok] : wok \in BOOLEAN}

(***************************************************************************)
(* TimerHit.                                                               *)
(***************************************************************************)
\* Mutant: the isConnected() test is missing.
TickSkipped_Never == FALSE

\* if (!isConnected()) return;
TickSkipped == ~connected

\* Mutant: the BRIGHTNESS test comes first in the chain.
MatchedPattern_BrightnessFirst(response) ==
    IF Contains(response, sBRIGHTNESS) THEN "BRIGHTNESS"
    ELSE IF Contains(response, sSTATE_OPEN) THEN "STATE OPEN"
    ELSE IF Contains(response, sSTATE_CLOSED) THEN "STATE CLOSED"
    ELSE IF Contains(response, sSTATE_MOVING) THEN "STATE MOVING"
    ELSE "none"

\* Mutant: the chain ends in a plain else that parses a brightness.
MatchedPattern_ElseBrightness(response) ==
    IF Contains(response, sSTATE_OPEN) THEN "STATE OPEN"
    ELSE IF Contains(response, sSTATE_CLOSED) THEN "STATE CLOSED"
    ELSE IF Contains(response, sSTATE_MOVING) THEN "STATE MOVING"
    ELSE "BRIGHTNESS"

\* The if / else-if chain over strstr: the first pattern found decides.
MatchedPattern(response) ==
    IF Contains(response, sSTATE_OPEN) THEN "STATE OPEN"
    ELSE IF Contains(response, sSTATE_CLOSED) THEN "STATE CLOSED"
    ELSE IF Contains(response, sSTATE_MOVING) THEN "STATE MOVING"
    ELSE IF Contains(response, sBRIGHTNESS) THEN "BRIGHTNESS"
    ELSE "none"

\* atoi(response + 11): the offset counts from the start of the buffer.  A
\* response shorter than the offset, which of the texts with the token is
\* the token alone, leaves the pointer past the terminator, in bytes of
\* response[128] that this call did not write: atoi reads what the stack held
\* there and may return any int.
ParsedBrightness(response) ==
    IF Len(response) >= BrightnessOffset
    THEN {Atoi(SubSeq(response, BrightnessOffset + 1, Len(response)))}
    ELSE IntMin..IntMax

TimerHit ==
    IF TickSkipped
    THEN /\ last' = Call("TimerHit", "void")
         /\ timer' = 0
         /\ UNCHANGED <<connected, serialFD, serialPort, openFDs, handles, CoverOptions,
                        BrightnessValue, StatusText, rxbuf>>
    ELSE \E arrived \in {<<>>} \cup StatusLines :
         LET r == readResponse(rxbuf \o arrived, ResponseSize)
             m == IF r.ok THEN MatchedPattern(r.response) ELSE "none" IN
         /\ rxbuf' = r.rest
         /\ CoverOptions' =
                IF m = "STATE OPEN" THEN <<ISS_ON, ISS_OFF>>
                ELSE IF m = "STATE CLOSED" THEN <<ISS_OFF, ISS_ON>>
                ELSE CoverOptions
         /\ StatusText' =
                IF m = "STATE OPEN" THEN "Cover Open"
                ELSE IF m = "STATE CLOSED" THEN "Cover Closed"
                ELSE IF m = "STATE MOVING" THEN "Cover Moving..."
                ELSE StatusText
         /\ IF m = "BRIGHTNESS"
            THEN BrightnessValue' \in ParsedBrightness(r.response)
            ELSE BrightnessValue' = BrightnessValue
         /\ timer' = PollPeriod
         /\ last' = [Call("TimerHit", "void") EXCEPT !.read = TRUE, !.rx = r.response]
         /\ UNCHANGED <<connected, serialFD, serialPort, openFDs, handles>>

(***************************************************************************)
(* ISNewSwitch.                                                            *)
(***************************************************************************)
SwitchRequests ==
    { [dev |-> DeviceName, name |-> CoverControlName, in |-> i] : i \in SwitchInputs }
    \cup
    { [dev |-> d, name |-> n,
       in |-> [names |-> <<"OPEN", "CLOSE">>, states |-> <<ISS_ON, ISS_OFF>>]] :
        d \in {DeviceName, "Other Device"}, n \in {CoverControlName, "CONNECTION"} }

\* if (!isConnected() || strcmp(dev, getDeviceName()) != 0) return false;
SwitchRejected(dev) == ~connected \/ dev # DeviceName

\* The commands the switch write may send (<<>>: none).  The CLOSE test reads
\* names[0] and states[1]; with a single element states[1] is past the end of
\* the array and may read as either state.
CoverCommands(names, states) ==
    IF names[1] = "OPEN" /\ states[1] = ISS_ON THEN {sOPEN}
    ELSE IF names[1] = "CLOSE"
         THEN IF Len(states) >= 2
              THEN (IF states[2] = ISS_ON THEN {sCLOSE} ELSE {<<>>})
              ELSE {sCLOSE, <<>>}
         ELSE {<<>>}

\* Mutant: a command that was sent sets the switch to the position asked for.
ISNewSwitch_SetsSwitch ==
    \E req \in SwitchRequests :
        LET call == [Call("ISNewSwitch", "false") EXCEPT
                        !.dev = req.dev, !.name = req.name,
                        !.names = req.in.names, !.states = req.in.states] IN
        /\ IF SwitchRejected(req.dev)
           THEN last' = call /\ UNCHANGED CoverOptions
           ELSE IF req.name = CoverControlName
                THEN \E cmd \in CoverCommands(req.in.names, req.in.states) :
                        IF cmd = <<>>
                        THEN /\ last' = [call EXCEPT !.ret = "true"]
                             /\ UNCHANGED CoverOptions
                        ELSE \E w \in sendCommand(cmd) :
                                /\ last' = [call EXCEPT !.ret = "true",
                                                        !.sent = <<w>>]
                                /\ CoverOptions' = IF cmd = sOPEN
                                                   THEN <<ISS_ON, ISS_OFF>>
                                                   ELSE <<ISS_OFF, ISS_ON>>
                ELSE last' = [call EXCEPT !.ret = "base"] /\ UNCHANGED CoverOptions
        /\ UNCHANGED <<connected, serialFD, serialPort, openFDs, handles,
                       BrightnessValue, StatusText, timer, rxbuf>>

ISNewSwitch ==
    \E req \in SwitchRequests :
        LET call == [Call("ISNewSwitch", "false") EXCEPT
                        !.dev = req.dev, !.name = req.name,
                        !.names = req.in.names, !.states = req.in.states] IN
        /\ IF SwitchRejected(req.dev)
           THEN last' = call
           ELSE IF req.name = CoverControlName
                THEN \E cmd \in CoverCommands(req.in.names, req.in.states) :
                        IF cmd = <<>>
                        THEN last' = [call EXCEPT !.ret = "true"]
                        ELSE \E w \in sendCommand(cmd) :
                                last' = [call EXCEPT !.ret = "true", !.sent = <<w>>]
                \* return INDI::DefaultDevice::ISNewSwitch(...)
                ELSE last' = [call EXCEPT !.ret = "base"]
        /\ UNCHANGED <<connected, serialFD, serialPort, openFDs, handles, CoverOptions,
                       BrightnessValue, StatusText, timer, rxbuf>>

(***************************************************************************)
(* ISNewNumber.                                                            *)
(***************************************************************************)
\* A number write: values[0] is (value / 2) * 10^e10.
NumberRequests ==
    { [dev |-> DeviceName, name |-> BrightnessControlName, value |-> v,
       e10 |-> 0] : v \in NumberInputs }
    \cup
    { [dev |-> DeviceName, name |-> BrightnessControlName, value |-> b.value,
       e10 |-> b.e10] : b \in BigNumberInputs }
    \cup
    { [dev |-> d, name |-> n, value |-> 201, e10 |-> 0] :
        d \in {DeviceName, "Other Device"},
        n \in {BrightnessControlName, "Other Control"} }

\* Mutant: the isConnected() test is missing.
NumberRejected_NoConnCheck(dev) == dev # DeviceName

\* if (!isConnected() || strcmp(dev, getDeviceName()) != 0) return false;
NumberRejected(dev) == ~connected \/ dev # DeviceName

\* static_cast<int>(values[0]): the double, given in halves, truncated toward 0.
ToInt(halves) == IF halves >= 0 THEN halves \div 2 ELSE 0 - ((0 - halves) \div 2)

RECURSIVE Pow10(_)
Pow10(e) == IF e = 0 THEN 1 ELSE 10 * Pow10(e - 1)

Abs(x) == IF x >= 0 THEN x ELSE 0 - x

\* static_cast<int> of the double (value / 2) * 10^e10.  A double whose
\* truncation does not fit an int makes the conversion undefined: the
\* instruction of the build gives INT_MIN, a saturating one INT_MAX.
StaticCastInt(value, e10) ==
    IF e10 = 0 THEN {ToInt(value)}
    ELSE IF value = 0 THEN {0}
    ELSE IF e10 <= 9 /\ Abs(value) <= IntMax \div (5 * Pow10(e10 - 1))
         THEN {value * 5 * Pow10(e10 - 1)}
         ELSE {IntMin, IntMax}

\* if (brightness < 0) brightness = 0; if (brightness > 4095) brightness = 4095;
ClampBrightness(b) ==
    IF b < BrightnessMin THEN BrightnessMin
    ELSE IF b > BrightnessMax THEN BrightnessMax
    ELSE b

\* snprintf(command, sizeof(command), "BRIGHTNESS %d", brightness)
BrightnessCommand(b) == sBRIGHTNESS_SP \o FormatInt(b)

ISNewNumber ==
    \E req \in NumberRequests :
        LET call == [Call("ISNewNumber", "false") EXCEPT
                        !.dev = req.dev, !.name = req.name, !.value = req.value,
                        !.e10 = req.e10] IN
        IF NumberRejected(req.dev)
        THEN /\ last' = call
             /\ UNCHANGED <<connected, serialFD, serialPort, openFDs, handles, CoverOptions,
                            BrightnessValue, StatusText, timer, rxbuf>>
        ELSE IF req.name = BrightnessControlName
             THEN \E cast \in StaticCastInt(req.value, req.e10) :
                  LET brightness == ClampBrightness(cast) IN
                  \E w \in sendCommand(BrightnessCommand(brightness)) :
                      /\ BrightnessValue' = brightness
                      /\ last' = [call EXCEPT !.ret = "true", !.sent = <<w>>]
                      /\ UNCHANGED <<connected, serialFD, serialPort, openFDs, handles,
                                     CoverOptions, StatusText, timer, rxbuf>>
             \* return INDI::DefaultDevice::ISNewNumber(...)
             ELSE /\ last' = [call EXCEPT !.ret = "base"]
                  /\ UNCHANGED <<connected, serialFD, serialPort, openFDs, handles,
                                 CoverOptions, BrightnessValue, StatusText, timer,
                                 rxbuf>>

(***************************************************************************)
(* The destructor.                                                         *)
(***************************************************************************)
\* ~FlatPanelCover(): closes serialFD when it is >= 0.
Destroy ==
    /\ IF serialFD >= 0
       THEN /\ openFDs' = openFDs \ {serialFD}
            /\ handles' = handles \ {serialFD}
            /\ last' = [Call("~FlatPanelCover", "void") EXCEPT
                           !.closed = <<serialFD>>]
       ELSE /\ UNCHANGED <<openFDs, handles>>
            /\ last' = Call("~FlatPanelCover", "void")
    /\ UNCHANGED <<connected, serialFD, serialPort, CoverOptions,
                   BrightnessValue, StatusText, timer, rxbuf>>

\* The object exists until its destructor has run.
alive == last.op # "~FlatPanelCover"

(***************************************************************************)
(* Specifications.                                                         *)
(***************************************************************************)
Next ==
    \/ alive /\ Connect
    \/ alive /\ Disconnect
    \/ alive /\ TimerHit
    \/ alive /\ ISNewSwitch
    \/ alive /\ ISNewNumber
    \/ alive /\ Destroy

\* The driver from construction on.
Spec == Init /\ [][Next]_vars

\* The driver right after a first Connect on the first port, with an
\* arbitrary text waiting on the line.
InitParse ==
    /\ connected = TRUE
    /\ serialFD = 3
    /\ serialPort = PortPath(1)
    /\ openFDs = StdFDs \cup {3}
    /\ handles = {3}
    /\ CoverOptions = <<ISS_OFF, ISS_OFF>>
    /\ BrightnessValue = 0
    /\ StatusText = "Disconnected"
    /\ timer = 0
    /\ rxbuf \in Texts
    /\ last = [Call("Connect", "true") EXCEPT !.configured = TRUE,
                                              !.opens = <<TRUE>>, !.tried = 1]

\* The calls the host makes within one session, between a Connect and the
\* Disconnect or destruction that ends it.
NextParse ==
    \/ alive /\ TimerHit
    \/ alive /\ ISNewSwitch
    \/ alive /\ ISNewNumber

SpecParse == InitParse /\ [][NextParse]_vars


(***************************************************************************)
(* Properties.                                                             *)
(***************************************************************************)
\* A step that is a call of TimerHit while Connected that read some bytes.
TickRead ==
    connected /\ last'.op = "TimerHit" /\ last'.read /\ last'.rx # <<>>

HasStatePattern(t) ==
    \/ Contains(t, sSTATE_OPEN)
    \/ Contains(t, sSTATE_CLOSED)
    \/ Contains(t, sSTATE_MOVING)

Min(a, b) == IF a < b THEN a ELSE b
Max(a, b) == IF a > b THEN a ELSE b

\* The decimal numeral of a brightness command, without leading zeros, sign
\* or white space.
IsPlainNumeral(t) ==
    /\ t # <<>>
    /\ \A i \in DOMAIN t : IsDigit(t[i])
    /\ (Len(t) > 1 => t[1] # "0")

\* C1: in every reachable state BrightnessLevel lies in [0, 4095], whoever
\* wrote it last (a brightness command or a BRIGHTNESS status line).
C1_BrightnessInRange ==
    BrightnessValue \in BrightnessMin..BrightnessMax

\* The brightness that goes with a request: the whole part of the number
\* asked for, kept inside the range of the control.
ClampOfRequest(value, e10) ==
    IF e10 = 0 THEN Min(Max(value \div 2, BrightnessMin), BrightnessMax)
    ELSE IF value <= 0 THEN BrightnessMin
    ELSE IF e10 >= 4 THEN BrightnessMax
    ELSE Min(value * 5 * Pow10(e10 - 1), BrightnessMax)

\* C2: a brightness-set handled while Connected transmits exactly
\* "BRIGHTNESS m", m a plain numeral in [0, 4095], and for a whole request n,
\* negative, in range or above 4095, m = min(max(n, 0), 4095); no command sent
\* carries another brightness.
C2_BrightnessCommandClamped ==
    /\ (last.op = "ISNewNumber" /\ last.ret = "true") =>
          /\ Len(last.sent) = 1
          /\ LET cmd == last.sent[1].cmd
                 num == SubSeq(cmd, Len(sBRIGHTNESS_SP) + 1, Len(cmd)) IN
             /\ SubSeq(cmd, 1, Len(sBRIGHTNESS_SP)) = sBRIGHTNESS_SP
             /\ IsPlainNumeral(num)
             /\ Atoi(num) \in BrightnessMin..BrightnessMax
             /\ (last.value % 2 = 0 =>
                    Atoi(num) = ClampOfRequest(last.value, last.e10))
    /\ \A i \in DOMAIN last.sent :
          Contains(last.sent[i].cmd, sBRIGHTNESS) =>
              (last.op = "ISNewNumber" /\ last.ret = "true")

\* C3: when the write of a brightness command fails, BrightnessLevel is left
\* unchanged and the command is reported as failed.
C3_FailedWriteKeepsBrightness ==
    [][(last'.op = "ISNewNumber" /\ last'.sent # <<>> /\ ~last'.sent[1].ok) =>
          (BrightnessValue' = BrightnessValue /\ last'.ret = "false")]_vars

\* C4: a cover command or brightness-set received while not Connected
\* returns failure, writes nothing to the transport and leaves CoverState,
\* BrightnessLevel and StatusMessage unchanged.
C4_DisconnectedCommandRejected ==
    [][(~connected /\ last'.op \in {"ISNewSwitch", "ISNewNumber"}) =>
          /\ last'.ret = "false"
          /\ last'.sent = <<>>
          /\ UNCHANGED <<CoverOptions, BrightnessValue, StatusText>>]_vars

C4_Witness ==
    /\ ~connected
    /\ last.op = "ISNewNumber"
    /\ last.dev = DeviceName
    /\ last.name = BrightnessControlName
    /\ last.ret = "false"
    /\ last.sent = <<>>

\* C5: Disconnect leaves the driver not Connected, and a tick that runs while
\* it is not Connected reads nothing from the transport and changes none of
\* CoverState, BrightnessLevel, StatusMessage or the serial handle.
C5_TickAfterDisconnectIsNoOp ==
    [][/\ last'.op = "Disconnect" => ~connected'
       /\ (~connected /\ last'.op = "TimerHit") =>
             /\ ~last'.read
             /\ UNCHANGED <<CoverOptions, BrightnessValue, StatusText,
                            serialFD, openFDs, rxbuf>>]_vars

\* A tick after a session that saw the cover open and was then disconnected.
C5_Witness ==
    /\ last.op = "TimerHit"
    /\ ~last.read
    /\ ~connected
    /\ serialFD = -1
    /\ openFDs = StdFDs
    /\ StatusText = "Cover Open"

\* C6: while Connected a cover-switch write with Open switched on transmits
\* exactly "OPEN", with Close switched on exactly "CLOSE", and with neither
\* switched on nothing, however the names and states are arranged.
C6_SwitchOnSendsCommand ==
    (last.op = "ISNewSwitch" /\ last.ret = "true") =>
        LET on(nm) == \E i \in DOMAIN last.names :
                          last.names[i] = nm /\ last.states[i] = ISS_ON
            cmds == [i \in DOMAIN last.sent |-> last.sent[i].cmd] IN
        /\ (on("OPEN") /\ ~on("CLOSE")) => cmds = <<sOPEN>>
        /\ (on("CLOSE") /\ ~on("OPEN")) => cmds = <<sCLOSE>>
        /\ (~on("OPEN") /\ ~on("CLOSE")) => cmds = <<>>

\* C7: a Connected tick that reads "STATE MOVING" (and neither "STATE OPEN"
\* nor "STATE CLOSED") leaves CoverState Moving, StatusMessage the moving
\* indicator and BrightnessLevel unchanged.
C7_MovingLineSetsMoving ==
    [][(/\ TickRead
        /\ Contains(last'.rx, sSTATE_MOVING)
        /\ ~Contains(last'.rx, sSTATE_OPEN)
        /\ ~Contains(last'.rx, sSTATE_CLOSED)) =>
          /\ CoverState' = "Moving"
          /\ StatusText' = "Cover Moving..."
          /\ BrightnessValue' = BrightnessValue]_vars

\* C8: the patterns are tried in the order STATE OPEN, STATE CLOSED, STATE
\* MOVING, BRIGHTNESS and only the first that matches is applied: a text
\* with "STATE OPEN" sets the cover Open and never changes BrightnessLevel,
\* also when "BRIGHTNESS" appears in it.
C8_FirstPatternWins ==
    [][TickRead =>
          LET t == last'.rx IN
          /\ Contains(t, sSTATE_OPEN) =>
                /\ CoverOptions' = <<ISS_ON, ISS_OFF>>
                /\ StatusText' = "Cover Open"
                /\ BrightnessValue' = BrightnessValue
          /\ (~Contains(t, sSTATE_OPEN) /\ Contains(t, sSTATE_CLOSED)) =>
                /\ CoverOptions' = <<ISS_OFF, ISS_ON>>
                /\ StatusText' = "Cover Closed"
                /\ BrightnessValue' = BrightnessValue
          /\ (/\ ~Contains(t, sSTATE_OPEN)
              /\ ~Contains(t, sSTATE_CLOSED)
              /\ Contains(t, sSTATE_MOVING)) =>
                /\ CoverOptions' = CoverOptions
                /\ StatusText' = "Cover Moving..."
                /\ BrightnessValue' = BrightnessValue
          /\ (~HasStatePattern(t) /\ Contains(t, sBRIGHTNESS)) =>
                /\ CoverOptions' = CoverOptions
                /\ StatusText' = StatusText]_vars

\* A tick read a text holding both "STATE OPEN" and "BRIGHTNESS 2048": the
\* cover is Open and the brightness is still the one the user set.
C8_Witness ==
    /\ last.op = "TimerHit"
    /\ Contains(last.rx, sSTATE_OPEN)
    /\ Contains(last.rx, sBRIGHTNESS \o sSP_2048)
    /\ CoverOptions = <<ISS_ON, ISS_OFF>>
    /\ StatusText = "Cover Open"
    /\ BrightnessValue = 100

\* The text that follows the first "BRIGHTNESS" of t.
AfterToken(t) ==
    LET i == CHOOSE j \in 1..Len(t) :
                 /\ SubSeq(t, j, j + Len(sBRIGHTNESS) - 1) = sBRIGHTNESS
                 /\ \A k \in 1..(j - 1) :
                        SubSeq(t, k, k + Len(sBRIGHTNESS) - 1) # sBRIGHTNESS
    IN SubSeq(t, i + Len(sBRIGHTNESS), Len(t))

\* C9: for a text with the token "BRIGHTNESS" and no state pattern, wherever
\* the token sits, the tick sets BrightnessLevel to the integer that follows
\* the token, 0 when what follows is not a number.
C9_BrightnessFollowsToken ==
    [][(TickRead /\ Contains(last'.rx, sBRIGHTNESS) /\ ~HasStatePattern(last'.rx)) =>
          BrightnessValue' = Atoi(AfterToken(last'.rx))]_vars

\* C10: a Connected tick that reads bytes matching none of the four patterns
\* changes none of CoverState, BrightnessLevel and StatusMessage, raises no
\* error, and reschedules the next tick.
C10_NoiseIgnored ==
    [][(TickRead /\ ~HasStatePattern(last'.rx) /\ ~Contains(last'.rx, sBRIGHTNESS)) =>
          /\ UNCHANGED <<CoverOptions, BrightnessValue, StatusText>>
          /\ connected'
          /\ last'.ret = "void"
          /\ timer' = PollPeriod]_vars

\* "hello world" was read in a session that had the cover open and a
\* brightness set: both are kept and the timer is set again.
C10_Witness ==
    /\ last.op = "TimerHit"
    /\ last.rx = sHelloWorld
    /\ connected
    /\ StatusText = "Cover Open"
    /\ BrightnessValue = 100
    /\ timer = PollPeriod


(***************************************************************************)
(* C11..C20: discovery, sessions, polling, handles.                        *)
(***************************************************************************)
\* The steps that are a call of Connect.
ConnectStep == last'.op = "Connect"

\* open() of candidate i succeeds in the call just made: the path opens and a
\* descriptor is free.  A candidate that fails leaves the table as it was.
CandidateOpens(i) == last'.opens[i] /\ (0..MaxFD) \ openFDs # {}

OpenableCandidates == {i \in 1..Len(last'.opens) : CandidateOpens(i)}

Least(S) == CHOOSE x \in S : \A y \in S : x <= y

\* C11: port discovery tries the candidates in order and stops at the first
\* whose open succeeds: that candidate is the one selected, the later ones are
\* not tried, and the one handle the discovery has opened is the selected one.
\* When no candidate opens, every candidate has been tried, the result is
\* not-found and the discovery holds no handle open.
C11_FirstOpenableSelected ==
    [][ConnectStep =>
          IF OpenableCandidates # {}
          THEN /\ last'.ret = "true"
               /\ last'.tried = Least(OpenableCandidates)
               /\ serialPort' = PortPath(Least(OpenableCandidates))
               /\ serialFD' \notin openFDs
               /\ openFDs' \ openFDs = {serialFD'}
               /\ handles' \ handles = {serialFD'}
               /\ (handles = {} => handles' = {serialFD'})
          ELSE /\ last'.ret = "false"
               /\ last'.tried = Len(last'.opens)
               /\ openFDs' = openFDs
               /\ handles' = handles]_vars

\* The first candidate did not open and the second did: it is the one kept.
C11_Witness ==
    /\ last.op = "Connect"
    /\ last.opens = <<FALSE, TRUE>>
    /\ last.ret = "true"
    /\ last.tried = 2
    /\ serialPort = PortPath(2)
    /\ handles = {serialFD}

\* The status texts a STATE line leaves behind.
CoverTexts == {"Cover Open", "Cover Closed", "Cover Moving..."}

\* C12: a session starts with the cover state not known: right after a
\* Connect that succeeds on a driver that was disconnected before, CoverState
\* is Unknown and the status text is not that of a cover position, whatever
\* the session before had read.
C12_ConnectStartsUnknown ==
    [][(last.op = "Disconnect" /\ ConnectStep /\ last'.ret = "true") =>
          /\ CoverState' = "Unknown"
          /\ StatusText' \notin CoverTexts]_vars

\* C13: in every state in which the driver is Connected a poll tick is
\* pending (the timer is armed with the poll period).
C13_TickPendingWhileConnected ==
    connected => timer = PollPeriod

\* The lines of a text, split at the line feeds.
LineEnd(t) ==
    IF \E i \in 1..Len(t) : t[i] = "\n"
    THEN CHOOSE i \in 1..Len(t) : t[i] = "\n" /\ \A j \in 1..(i - 1) : t[j] # "\n"
    ELSE Len(t) + 1

RECURSIVE SplitLines(_)
SplitLines(t) ==
    IF t = <<>> THEN <<>>
    ELSE <<SubSeq(t, 1, LineEnd(t) - 1)>>
         \o SplitLines(SubSeq(t, LineEnd(t) + 1, Len(t)))

IsCoverLine(l) == Contains(l, sSTATE_OPEN) \/ Contains(l, sSTATE_CLOSED)
IsBrightnessLine(l) == ~HasStatePattern(l) /\ Contains(l, sBRIGHTNESS)

\* The cover state and brightness after every line of ls has been applied in
\* order to the values in st.
RECURSIVE ApplyLines(_, _)
ApplyLines(ls, st) ==
    IF ls = <<>> THEN st
    ELSE LET l == Head(ls)
             nx == IF Contains(l, sSTATE_OPEN) THEN [st EXCEPT !.cover = "Open"]
                   ELSE IF Contains(l, sSTATE_CLOSED) THEN [st EXCEPT !.cover = "Closed"]
                   ELSE IF IsBrightnessLine(l)
                        THEN [st EXCEPT !.brightness = Atoi(AfterToken(l))]
                   ELSE st
         IN ApplyLines(Tail(ls), nx)

\* A text of several status lines, a cover position among them and a
\* brightness among them.
SeveralStatusLines(t) ==
    /\ \E i \in DOMAIN SplitLines(t) : IsCoverLine(SplitLines(t)[i])
    /\ \E i \in DOMAIN SplitLines(t) : IsBrightnessLine(SplitLines(t)[i])
    /\ ~Contains(t, sSTATE_MOVING)

\* C14: when the bytes read in one tick hold several status lines, a cover
\* position and a brightness, each line is applied in order: after the tick
\* CoverState and BrightnessLevel are the last values the lines report.
C14_EveryLineApplied ==
    [][(TickRead /\ SeveralStatusLines(last'.rx)) =>
          LET after == ApplyLines(SplitLines(last'.rx),
                                  [cover |-> CoverState,
                                   brightness |-> BrightnessValue]) IN
          /\ CoverState' = after.cover
          /\ BrightnessValue' = after.brightness]_vars

\* The call last made was a brightness-set handled while Connected whose
\* command was written.
BrightnessWasSet ==
    /\ connected
    /\ last.op = "ISNewNumber"
    /\ last.ret = "true"
    /\ last.sent # <<>>
    /\ last.sent[1].ok

\* A tick that applies a BRIGHTNESS status line.
TickAppliesBrightness ==
    TickRead /\ Contains(last'.rx, sBRIGHTNESS) /\ ~HasStatePattern(last'.rx)

\* C15: a brightness-set of a whole number n that succeeds while Connected
\* leaves BrightnessLevel = clamp(n) at once; the tick that follows keeps
\* that value unless it applies a BRIGHTNESS status line, and then
\* BrightnessLevel is the value the hardware reports in that line.
C15_OptimisticUntilReported ==
    [][/\ (BrightnessWasSet' /\ last'.value % 2 = 0 /\ last'.e10 = 0) =>
              BrightnessValue' = Min(Max(last'.value \div 2, BrightnessMin),
                                     BrightnessMax)
       /\ (BrightnessWasSet /\ last'.op = "TimerHit") =>
              IF TickAppliesBrightness
              THEN BrightnessValue' = Atoi(AfterToken(last'.rx))
              ELSE BrightnessValue' = BrightnessValue]_vars

\* C16: a descriptor is closed only when port discovery opened it and it is
\* still open, so no handle is released twice and nothing else is closed; a
\* Disconnect in the Disconnected state (before any Connect too) closes
\* nothing; a destruction right after a Disconnect closes nothing; and once
\* the object is destroyed no handle that discovery opened is left open.
C16_HandlesClosedOnce ==
    [][/\ \A i \in DOMAIN last'.closed : last'.closed[i] \in handles
       /\ (last'.op = "Disconnect" /\ ~connected) => last'.closed = <<>>
       /\ (last'.op = "~FlatPanelCover" /\ last.op = "Disconnect") =>
              last'.closed = <<>>
       /\ last'.op = "~FlatPanelCover" => handles' = {}]_vars

\* C17: a Connect of a Disconnected driver for which no candidate opens
\* returns failure and leaves the driver Disconnected with the absent handle
\* stored; the transport is not configured, each candidate was tried once,
\* and CoverState, BrightnessLevel and StatusMessage are as before.
C17_FailedConnectLeavesNothing ==
    [][(~connected /\ ConnectStep /\ OpenableCandidates = {}) =>
          /\ last'.ret = "false"
          /\ ~connected'
          /\ serialFD' < 0
          /\ ~last'.configured
          /\ last'.tried = Len(last'.opens)
          /\ UNCHANGED <<CoverOptions, BrightnessValue, StatusText>>]_vars

\* C18: a cover command changes nothing of the local device state, whether
\* its write succeeds or not: CoverState, StatusMessage and BrightnessLevel
\* are as before the switch write.  CoverState changes only in a Connected
\* tick whose text holds the STATE line of the new position.
C18_CoverCommandKeepsState ==
    [][/\ last'.op = "ISNewSwitch" =>
              UNCHANGED <<CoverOptions, StatusText, BrightnessValue>>
       /\ CoverState' # CoverState =>
              /\ TickRead
              /\ CoverState' = "Open" => Contains(last'.rx, sSTATE_OPEN)
              /\ CoverState' = "Closed" => Contains(last'.rx, sSTATE_CLOSED)
              /\ CoverState' # "Unknown"]_vars

\* OPEN was written to the line while the cover was known Closed, and the
\* cover is still Closed.
C18_Witness ==
    /\ last.op = "ISNewSwitch"
    /\ last.ret = "true"
    /\ last.sent # <<>>
    /\ last.sent[1].cmd = sOPEN
    /\ last.sent[1].ok
    /\ CoverState = "Closed"
    /\ StatusText = "Cover Closed"

\* The status text that goes with a cover state.
TextOf(state) ==
    CASE state = "Open" -> "Cover Open"
      [] state = "Closed" -> "Cover Closed"
      [] state = "Moving" -> "Cover Moving..."
      [] OTHER -> "Disconnected"

\* C19: StatusMessage is at all times the text of CoverState ("Cover Open"
\* only while Open, "Cover Closed" only while Closed, the moving text only
\* while Moving), and it changes only in a Connected tick that applies a
\* STATE line.
C19_StatusFollowsCoverState ==
    [][/\ StatusText' \in CoverTexts => StatusText' = TextOf(CoverState')
       /\ StatusText' # StatusText =>
              (TickRead /\ HasStatePattern(last'.rx))]_vars

\* C20: over any sequence of connect and disconnect requests the driver
\* holds exactly one open serial handle while Connected and none while
\* Disconnected: a Connect that succeeds, issued while Connected or not,
\* leaves the handle stored in serialFD as the only one open, a Disconnect
\* leaves none, and no other call opens or closes one.
C20_OneHandleWhileConnected ==
    [][/\ (ConnectStep /\ last'.ret = "true") => handles' = {serialFD'}
       /\ last'.op = "Disconnect" => handles' = {}
       /\ last'.op \in {"TimerHit", "ISNewSwitch", "ISNewNumber"} =>
              handles' = handles]_vars
=============================================================================
